---- MODULE Spec2Model ----
(***************************************************************************)
(* A model of angr/simos/linux.py (class SimLinux): the Linux OS           *)
(* personality of the binary-analysis platform.                            *)
(*                                                                         *)
(* Three specifications share the variables:                               *)
(*   Spec        configure_project, prepare_function_symbol and the two    *)
(*               concrete-target synchronisers on one project;             *)
(*   SpecSyscall syscall_abi on a project that is being configured;        *)
(*   SpecEntry   state_entry / set_entry_register_values, a function of    *)
(*               the architecture, the entry-register map and the call's   *)
(*               arguments.                                                *)
(*                                                                         *)
(* Addresses are integers.  A machine word held in loader memory is a      *)
(* record [hi, lo] of two 32-bit halves, because the stack-guard words     *)
(* written on AMD64 are 64 bits wide.  The 32-bit ARM address 0xffff0fe0   *)
(* is written as the signed 32-bit integer of the same bit pattern.        *)
(***************************************************************************)
EXTENDS Integers, Sequences, FiniteSets, TLC

VARIABLES
    arch,                   \* project.arch.name
    loader,                 \* project.loader: the objects it mapped (read-only)
    extern_object,          \* project.loader.extern_object: the allocator
    memory,                 \* project.loader.memory: address -> word
    hooks,                  \* project._sim_procedures: address -> procedure
    simos,                  \* the SimLinux object's own fields
    ret,                    \* what the last call returned (or raised)
    state,                  \* the SimState handed to syscall_abi / the synchronisers
    calls,                  \* how many times each bounded operation has run
    entry_register_values,  \* arch.entry_register_values, in iteration order
    entry                   \* the state built by the last state_entry call

vars == <<arch, loader, extern_object, memory, hooks, simos, ret, state, calls,
          entry_register_values, entry>>

\* An optional value is a sequence of at most one element.
None == <<>>
Some(x) == <<x>>
Val(o) == o[1]

-----------------------------------------------------------------------------
(* Bounds of the model.                                                    *)

MaxConfigure == 2   \* calls of configure_project in one behaviour
MaxPrepare == 1     \* calls of prepare_function_symbol in one behaviour
MaxRelocs == 2      \* relocation records of the loaded objects
MaxArgs == 2        \* argument strings given to state_entry
MaxEnv == 1         \* environment entries given to state_entry
MaxArgc == 3        \* largest explicit argc override
MaxRegs == 2        \* registers in the entry-register map

-----------------------------------------------------------------------------
(* Architectures.                                                          *)

Archs == {"X86", "AMD64", "ARMEL", "ARMHF", "AARCH64",
          "MIPS32", "MIPS64", "PPC32", "PPC64"}

ArchBits(a) == IF a \in {"AMD64", "AARCH64", "MIPS64", "PPC64"} THEN 64 ELSE 32

ArchBytes(a) == ArchBits(a) \div 8

\* arch.memory_endness: the big-endian defaults of archinfo
ArchBigEndian(a) == a \in {"MIPS32", "MIPS64", "PPC32", "PPC64"}

IsArchAMD64(a) == a = "AMD64"
IsArchX86(a) == a = "X86"
IsArchARM(a) == a \in {"ARMEL", "ARMHF"}

\* name.startswith('ARM'): of the names above, the two 32-bit ARM ones
StartsWithARM(a) == a \in {"ARMEL", "ARMHF"}

-----------------------------------------------------------------------------
(* Words and the address-space layout of the loaded project.               *)

Word(a) == [hi |-> 0, lo |-> a]

\* the two AMD64 guard words, 0x5f43414e4152595f and 0x5054524755415244
GuardWord28 == [hi |-> 1598243150, lo |-> 1095915871]
GuardWord30 == [hi |-> 1347703367, lo |-> 1430344260]

ExternBase == 4096          \* extern_object.mapped_base
ThreadPointer == 20480      \* tls_object.thread_pointer
RtldGlobal == 8192          \* _rtld_global.rebased_addr
KernelHelperGetTls == -61472    \* 0xffff0fe0

\* regions the loader mapped from the binary objects and the TLS object
LoaderRegions == {[lo |-> 256, hi |-> 1024],        \* main object
                  [lo |-> 2048, hi |-> 3072],       \* ld.so text
                  [lo |-> 3072, hi |-> 4096],       \* libc.so.6
                  [lo |-> 8192, hi |-> 16384],      \* ld.so data
                  [lo |-> 20480, hi |-> 20736]}     \* TLS block

InLoaderRegion(a) == \E r \in LoaderRegions : r.lo <= a /\ a < r.hi

\* symbols of the dynamic loader and of libc that configure_project looks up
LdSymbols == [__tls_get_addr |-> 2048, ___tls_get_addr |-> 2064]
LibcVdsoVsym == 3072

GotAddrs == {512, 520}      \* relocation slots of the main object
StubAddrs == {256, 264}     \* resolver stubs the static linker put in them

\* loader memory before configure_project: the relocation slots hold their
\* stubs, and the words at the looked-up symbols hold their code addresses
InitialMemory ==
    (512 :> Word(256)) @@ (520 :> Word(264)) @@
    (2048 :> Word(2052)) @@ (2064 :> Word(2068)) @@ (3072 :> Word(3076))

-----------------------------------------------------------------------------
(* Collaborators: the extern allocator, loader memory and the hook table.  *)

AlignUp(x, a) == ((x + a - 1) \div a) * a

\* extern_object.allocate(size, alignment=8): hands out the next aligned
\* address of the extern region and moves the counter past it
Allocate(ext, size) ==
    LET off == AlignUp(ext.next_addr, 8)
        addr == off + ExternBase
    IN  [ext |-> [ext EXCEPT !.next_addr = off + size,
                             !.allocs = Append(@, [addr |-> addr, size |-> size])],
         addr |-> addr]

\* extern_object.get_pseudo_addr(name): the address of the extern symbol of
\* that name, made (one allocation) the first time it is asked for
GetPseudoAddr(ext, name) ==
    IF name \in DOMAIN ext.symbols
    THEN [ext |-> ext, addr |-> ext.symbols[name]]
    ELSE LET a == Allocate(ext, 1)
         IN  [ext |-> [a.ext EXCEPT !.symbols = (name :> a.addr) @@ @],
              addr |-> a.addr]

\* loader.memory.pack_word / unpack_word
PackWord(mem, addr, word) == (addr :> word) @@ mem
UnpackWord(mem, addr) == mem[addr]

Procedure(name) ==
    [name |-> name, funcaddr |-> Word(0), gotaddr |-> 0, funcname |-> "",
     static_addr |-> 0]

IsHooked(hk, addr) == addr \in DOMAIN hk

\* an address read out of a memory word
IsHookedWord(hk, word) == word.hi = 0 /\ IsHooked(hk, word.lo)

\* project.hook(addr, procedure): an address already hooked keeps its hook
Hook(hk, addr, proc) == IF IsHooked(hk, addr) THEN hk ELSE (addr :> proc) @@ hk

\* project.rehook_symbol(new_address, name): every hook of that name moves
\* to new_address
RehookSymbol(hk, new_address, name) ==
    LET moved == {a \in DOMAIN hk : hk[a].name = name}
        kept == DOMAIN hk \ moved
    IN  IF moved = {} THEN hk
        ELSE [a \in kept \cup {new_address} |->
                IF a = new_address THEN hk[CHOOSE m \in moved : TRUE] ELSE hk[a]]

-----------------------------------------------------------------------------
(* prepare_function_symbol, as a function of the world it reads and        *)
(* changes.  A world is [ext, mem, hooks, simos].                          *)

\* prepare_function_symbol returning the code address twice and storing the
\* TOC address in the TOC word
PrepareFunctionSymbolBug(w, toc, symbol_name, basic_addr) ==
    IF toc
    THEN IF basic_addr # None
         THEN [w |-> w, code |-> UnpackWord(w.mem, Val(basic_addr)).lo,
               target |-> Val(basic_addr)]
         ELSE LET p == GetPseudoAddr(w.ext, symbol_name)
                  t == Allocate(p.ext, 24)
              IN  [w |-> [w EXCEPT !.ext = t.ext,
                                   !.mem = PackWord(@, t.addr, Word(t.addr))],
                   code |-> p.addr, target |-> p.addr]
    ELSE LET p == GetPseudoAddr(w.ext, symbol_name)
         IN  [w |-> [w EXCEPT !.ext = p.ext], code |-> p.addr, target |-> p.addr]

\* prepare_function_symbol(symbol_name, basic_addr) -> (code, target)
PrepareFunctionSymbol(w, toc, symbol_name, basic_addr) ==
    IF toc
    THEN IF basic_addr # None
         THEN [w |-> w, code |-> UnpackWord(w.mem, Val(basic_addr)).lo,
               target |-> Val(basic_addr)]
         ELSE LET pseudo_hookaddr == GetPseudoAddr(w.ext, symbol_name)
                  pseudo_toc == Allocate(pseudo_hookaddr.ext, 24)
              IN  [w |-> [w EXCEPT !.ext = pseudo_toc.ext,
                                   !.mem = PackWord(@, pseudo_toc.addr,
                                                    Word(pseudo_hookaddr.addr))],
                   code |-> pseudo_hookaddr.addr, target |-> pseudo_toc.addr]
    ELSE IF basic_addr = None
         THEN LET p == GetPseudoAddr(w.ext, symbol_name)
              IN  [w |-> [w EXCEPT !.ext = p.ext], code |-> p.addr, target |-> p.addr]
         ELSE [w |-> w, code |-> Val(basic_addr), target |-> Val(basic_addr)]

\* _weak_hook_symbol(name, procedure, scope): when the scope object has the
\* symbol, hook its code address unless something is hooked there already
WeakHookSymbol(w, toc, scope, name, addr) ==
    IF name \notin scope THEN w
    ELSE LET p == PrepareFunctionSymbol(w, toc, name, Some(addr))
         IN  [p.w EXCEPT !.hooks = Hook(@, p.code, Procedure(name))]

-----------------------------------------------------------------------------
(* configure_project.                                                      *)

\* LoaderHooks with the error-catch static_addr taken from the vsyscall
\* allocation instead of one of its own
LoaderHooksSharedStatic(w) ==
    LET a1 == Allocate(w.ext, 1)
        a2 == Allocate(a1.ext, 1)
        a3 == Allocate(a2.ext, 1)
        a4 == Allocate(a3.ext, 1)
        a5 == Allocate(a4.ext, 1)
        h1 == Hook(w.hooks, a1.addr, Procedure("LinuxLoader"))
        h2 == Hook(h1, a2.addr, Procedure("_dl_rtld_lock_recursive"))
        h3 == Hook(h2, a3.addr, Procedure("_dl_rtld_unlock_recursive"))
        h4 == Hook(h3, a4.addr, [Procedure("_dl_initial_error_catch_tsd")
                                    EXCEPT !.static_addr = a5.addr])
        h5 == Hook(h4, a5.addr, Procedure("_vsyscall"))
    IN  [w EXCEPT !.ext = a5.ext,
                  !.hooks = h5,
                  !.simos = [@ EXCEPT !._loader_addr = Some(a1.addr),
                                      !._loader_lock_addr = Some(a2.addr),
                                      !._loader_unlock_addr = Some(a3.addr),
                                      !._error_catch_tsd_addr = Some(a4.addr),
                                      !._vsyscall_addr = Some(a5.addr)]]

\* lines 38-52: five extern addresses and their hooks; the sixth allocation
\* is the static_addr argument of the error-catch procedure
LoaderHooks(w) ==
    LET a1 == Allocate(w.ext, 1)
        a2 == Allocate(a1.ext, 1)
        a3 == Allocate(a2.ext, 1)
        a4 == Allocate(a3.ext, 1)
        a5 == Allocate(a4.ext, 1)
        h1 == Hook(w.hooks, a1.addr, Procedure("LinuxLoader"))
        h2 == Hook(h1, a2.addr, Procedure("_dl_rtld_lock_recursive"))
        h3 == Hook(h2, a3.addr, Procedure("_dl_rtld_unlock_recursive"))
        a6 == Allocate(a5.ext, 1)
        h4 == Hook(h3, a4.addr, [Procedure("_dl_initial_error_catch_tsd")
                                    EXCEPT !.static_addr = a6.addr])
        h5 == Hook(h4, a5.addr, Procedure("_vsyscall"))
    IN  [w EXCEPT !.ext = a6.ext,
                  !.hooks = h5,
                  !.simos = [@ EXCEPT !._loader_addr = Some(a1.addr),
                                      !._loader_lock_addr = Some(a2.addr),
                                      !._loader_unlock_addr = Some(a3.addr),
                                      !._error_catch_tsd_addr = Some(a4.addr),
                                      !._vsyscall_addr = Some(a5.addr)]]

\* lines 54-71: the loader object's TLS accessors and _rtld_global
LoaderObject(w, a, ld) ==
    IF ld.linux_loader_object = None THEN w
    ELSE LET ld_obj == Val(ld.linux_loader_object)
             toc == ld.main_object.is_ppc64_abiv1
             w1 == WeakHookSymbol(w, toc, ld_obj.symbols, "__tls_get_addr",
                                  LdSymbols.__tls_get_addr)
             w2 == WeakHookSymbol(w1, toc, ld_obj.symbols, "___tls_get_addr",
                                  LdSymbols.___tls_get_addr)
         IN  IF "_rtld_global" \in ld_obj.symbols /\ IsArchAMD64(a)
             THEN [w2 EXCEPT !.mem =
                     PackWord(PackWord(PackWord(@,
                         RtldGlobal + 3848, Word(Val(w2.simos._loader_lock_addr))),      \* 0xF08
                         RtldGlobal + 3856, Word(Val(w2.simos._loader_unlock_addr))),    \* 0xF10
                         RtldGlobal + 2448, Word(Val(w2.simos._error_catch_tsd_addr)))] \* 0x990
             ELSE w2

\* lines 73-75
LibcObject(w, ld) ==
    IF ld.libc = None THEN w
    ELSE WeakHookSymbol(w, ld.main_object.is_ppc64_abiv1, Val(ld.libc).symbols,
                        "_dl_vdso_vsym", LibcVdsoVsym)

\* ThreadPointerSetup installing the kernel-helper hook one word off
ThreadPointerSetupOffByWord(w, a, ld) ==
    IF ld.tls_object = None THEN w
    ELSE LET tp == Val(ld.tls_object).thread_pointer IN
         IF IsArchAMD64(a)
         THEN [w EXCEPT !.mem = PackWord(PackWord(@, tp + 40, GuardWord28),
                                         tp + 48, GuardWord30)]
         ELSE IF IsArchX86(a)
         THEN [w EXCEPT !.mem = PackWord(@, tp + 16, Word(Val(w.simos._vsyscall_addr)))]
         ELSE IF IsArchARM(a)
         THEN [w EXCEPT !.hooks = Hook(@, KernelHelperGetTls + 4,
                                       Procedure("_kernel_user_helper_get_tls"))]
         ELSE w

\* lines 77-85: the words next to the thread pointer, or the ARM helper hook
ThreadPointerSetup(w, a, ld) ==
    IF ld.tls_object = None THEN w
    ELSE LET tp == Val(ld.tls_object).thread_pointer IN
         IF IsArchAMD64(a)
         THEN [w EXCEPT !.mem = PackWord(PackWord(@, tp + 40, GuardWord28),
                                         tp + 48, GuardWord30)]
         ELSE IF IsArchX86(a)
         THEN [w EXCEPT !.mem = PackWord(@, tp + 16, Word(Val(w.simos._vsyscall_addr)))]
         ELSE IF IsArchARM(a)
         THEN [w EXCEPT !.hooks = Hook(@, KernelHelperGetTls,
                                       Procedure("_kernel_user_helper_get_tls"))]
         ELSE w

\* IfuncReloc that hooks the resolver but leaves the relocation slot as it was
IfuncRelocNoRewrite(w, reloc) ==
    IF ~reloc.symbol \/ reloc.resolvedby = "None" THEN w
    ELSE IF reloc.resolvedby # "STT_GNU_IFUNC" THEN w
    ELSE LET gotaddr == reloc.rebased_addr
             gotvalue == UnpackWord(w.mem, gotaddr)
         IN  IF IsHookedWord(w.hooks, gotvalue) THEN w
             ELSE LET randaddr == Allocate(w.ext, 1)
                  IN  [w EXCEPT !.ext = randaddr.ext,
                                !.hooks = Hook(@, randaddr.addr,
                                    [Procedure("IFuncResolver")
                                        EXCEPT !.funcaddr = gotvalue,
                                               !.gotaddr = gotaddr,
                                               !.funcname = reloc.name])]

\* lines 93-114: one relocation record
IfuncReloc(w, reloc) ==
    IF ~reloc.symbol \/ reloc.resolvedby = "None" THEN w
    ELSE IF reloc.resolvedby # "STT_GNU_IFUNC" THEN w
    ELSE LET gotaddr == reloc.rebased_addr
             gotvalue == UnpackWord(w.mem, gotaddr)
         IN  IF IsHookedWord(w.hooks, gotvalue) THEN w
             ELSE LET randaddr == Allocate(w.ext, 1)
                  IN  [w EXCEPT !.ext = randaddr.ext,
                                !.hooks = Hook(@, randaddr.addr,
                                    [Procedure("IFuncResolver")
                                        EXCEPT !.funcaddr = gotvalue,
                                               !.gotaddr = gotaddr,
                                               !.funcname = reloc.name]),
                                !.mem = PackWord(@, gotaddr, Word(randaddr.addr))]

RECURSIVE IfuncRelocs(_, _)
IfuncRelocs(w, relocs) ==
    IF relocs = <<>> THEN w
    ELSE IfuncRelocs(IfuncReloc(w, Head(relocs)), Tail(relocs))

\* lines 87-114: the ifunc-resolution pass
IfuncPass(w, a, ld) ==
    IF ld.main_object.is_elf /\ (IsArchAMD64(a) \/ IsArchX86(a))
    THEN IfuncRelocs(w, ld.relocs)
    ELSE w

\* lines 116-137: the syscall ABIs of the architecture
SyscallAbis(a) ==
    IF a = "X86" THEN <<"i386">>
    ELSE IF a = "AMD64" THEN <<"i386", "amd64">>
    ELSE IF StartsWithARM(a)
         THEN IF a = "ARMHF" THEN <<"arm", "armhf">> ELSE <<"arm">>
    ELSE IF a = "AARCH64" THEN <<"aarch64">>
    ELSE IF a = "MIPS32" THEN <<"mips-o32">>
    ELSE IF a = "MIPS64" THEN <<"mips-n32", "mips-n64">>
    ELSE IF a = "PPC32" THEN <<"ppc">>
    ELSE IF a = "PPC64" THEN <<"ppc64">>
    ELSE <<>>

\* the whole of configure_project
ConfigureProject(w, a, ld) ==
    LET w1 == LoaderHooks(w)
        w2 == LoaderObject(w1, a, ld)
        w3 == LibcObject(w2, ld)
        w4 == ThreadPointerSetup(w3, a, ld)
        w5 == IfuncPass(w4, a, ld)
    IN  [w5 EXCEPT !.simos.syscall_abis = SyscallAbis(a)]

-----------------------------------------------------------------------------
(* syscall_abi.                                                            *)

JumpKinds == {"Ijk_Sys_int128", "Ijk_Sys_syscall", "Ijk_Boring"}

\* syscall_abi without its architecture test
SyscallAbiAnyArch(a, jumpkind) ==
    IF jumpkind = "Ijk_Sys_int128" THEN [raised |-> FALSE, abi |-> "i386"]
    ELSE IF jumpkind = "Ijk_Sys_syscall" THEN [raised |-> FALSE, abi |-> "amd64"]
    ELSE [raised |-> TRUE, abi |-> "AngrSyscallError"]

\* syscall_abi with the two trap mechanisms exchanged and no fault
SyscallAbiSwapped(a, jumpkind) ==
    IF a # "AMD64" THEN [raised |-> FALSE, abi |-> "None"]
    ELSE IF jumpkind = "Ijk_Sys_int128" THEN [raised |-> FALSE, abi |-> "amd64"]
    ELSE IF jumpkind = "Ijk_Sys_syscall" THEN [raised |-> FALSE, abi |-> "i386"]
    ELSE [raised |-> FALSE, abi |-> "amd64"]

\* lines 141-149; abi "None" is Python's None, raised is AngrSyscallError
SyscallAbi(a, jumpkind) ==
    IF a # "AMD64" THEN [raised |-> FALSE, abi |-> "None"]
    ELSE IF jumpkind = "Ijk_Sys_int128" THEN [raised |-> FALSE, abi |-> "i386"]
    ELSE IF jumpkind = "Ijk_Sys_syscall" THEN [raised |-> FALSE, abi |-> "amd64"]
    ELSE [raised |-> TRUE, abi |-> "AngrSyscallError"]

-----------------------------------------------------------------------------
(* The projects the model starts from.                                     *)

TlsObject == [thread_pointer |-> ThreadPointer, user_thread_pointer |-> ThreadPointer]

\* a statically linked binary has neither ld.so nor libc; a stripped ld.so
\* exposes none of the symbols looked up
DynamicObjects ==
    {[linux_loader_object |-> None, libc |-> None],
     [linux_loader_object |-> Some([symbols |-> {}]),
      libc |-> Some([symbols |-> {"_dl_vdso_vsym"}])],
     [linux_loader_object |->
        Some([symbols |-> {"__tls_get_addr", "___tls_get_addr", "_rtld_global"}]),
      libc |-> Some([symbols |-> {"_dl_vdso_vsym"}])]}

\* is_ppc64_abiv1 is a property of PPC64 ELF objects
MainObjects(a) ==
    {[is_elf |-> e, is_ppc64_abiv1 |-> t, ppc64_initial_rtoc |-> 768] :
        e \in BOOLEAN, t \in BOOLEAN} \ 
    {m \in [is_elf : BOOLEAN, is_ppc64_abiv1 : BOOLEAN, ppc64_initial_rtoc : {768}] :
        m.is_ppc64_abiv1 /\ ~(a = "PPC64" /\ m.is_elf)}

RelocKinds ==
    {[symbol |-> TRUE, resolvedby |-> "STT_GNU_IFUNC", rebased_addr |-> 512, name |-> "f"],
     [symbol |-> TRUE, resolvedby |-> "STT_GNU_IFUNC", rebased_addr |-> 520, name |-> "g"],
     [symbol |-> TRUE, resolvedby |-> "STT_FUNC", rebased_addr |-> 520, name |-> "g"],
     [symbol |-> TRUE, resolvedby |-> "None", rebased_addr |-> 512, name |-> "f"],
     [symbol |-> FALSE, resolvedby |-> "None", rebased_addr |-> 520, name |-> ""]}

RelocLists == UNION {[1..n -> RelocKinds] : n \in 0..MaxRelocs}

\* the relocation records are read on X86 and AMD64 with an ELF main object
\* only, so the other projects carry none
Loaders(a) ==
    {[tls_object |-> t, linux_loader_object |-> d.linux_loader_object,
      libc |-> d.libc, main_object |-> m, relocs |-> r] :
        t \in {None, Some(TlsObject)}, d \in DynamicObjects,
        m \in MainObjects(a), r \in RelocLists} \cap
    {l \in [tls_object : {None, Some(TlsObject)},
            linux_loader_object : {d.linux_loader_object : d \in DynamicObjects},
            libc : {d.libc : d \in DynamicObjects},
            main_object : MainObjects(a), relocs : RelocLists] :
        l.relocs # <<>> => l.main_object.is_elf /\ (IsArchAMD64(a) \/ IsArchX86(a))}

NoRet == [op |-> "none", raised |-> FALSE, abi |-> "", jumpkind |-> "",
          symbol_name |-> "", basic_addr |-> None, code |-> 0, target |-> 0]

InitProject ==
    /\ extern_object = [next_addr |-> 0, allocs |-> <<>>, symbols |-> <<>>]
    /\ memory = InitialMemory
    /\ hooks = <<>>
    /\ simos = [_loader_addr |-> None, _loader_lock_addr |-> None,
                _loader_unlock_addr |-> None, _error_catch_tsd_addr |-> None,
                _vsyscall_addr |-> None, syscall_abis |-> <<>>]
    /\ ret = NoRet
    /\ state = [fs |-> None, gs |-> None, gdt |-> None]
    /\ calls = [configure |-> 0, prepare |-> 0]

Init ==
    /\ arch \in Archs
    /\ loader \in Loaders(arch)
    /\ InitProject
    /\ entry_register_values = <<>>
    /\ entry = None

-----------------------------------------------------------------------------
(* The operations.                                                         *)

World == [ext |-> extern_object, mem |-> memory, hooks |-> hooks, simos |-> simos]

SetWorld(w) ==
    /\ extern_object' = w.ext
    /\ memory' = w.mem
    /\ hooks' = w.hooks
    /\ simos' = w.simos

configure_project ==
    /\ calls.configure < MaxConfigure
    /\ SetWorld(ConfigureProject(World, arch, loader))
    /\ calls' = [calls EXCEPT !.configure = @ + 1]
    /\ ret' = NoRet
    /\ UNCHANGED <<arch, loader, state, entry_register_values, entry>>

syscall_abi ==
    \E jumpkind \in JumpKinds :
        LET r == SyscallAbi(arch, jumpkind)
        IN  /\ ret' = [NoRet EXCEPT !.op = "syscall_abi", !.jumpkind = jumpkind,
                                    !.raised = r.raised, !.abi = r.abi]
            /\ UNCHANGED <<arch, loader, extern_object, memory, hooks, simos, state,
                           calls, entry_register_values, entry>>

SymbolNames == {"f", "g"}
BasicAddrs == {None, Some(512)}

prepare_function_symbol ==
    \E symbol_name \in SymbolNames, basic_addr \in BasicAddrs :
        LET r == PrepareFunctionSymbol(World, loader.main_object.is_ppc64_abiv1,
                                       symbol_name, basic_addr)
        IN  /\ calls.prepare < MaxPrepare
            /\ SetWorld(r.w)
            /\ calls' = [calls EXCEPT !.prepare = @ + 1]
            /\ ret' = [NoRet EXCEPT !.op = "prepare_function_symbol",
                                    !.symbol_name = symbol_name,
                                    !.basic_addr = basic_addr,
                                    !.code = r.code, !.target = r.target]
            /\ UNCHANGED <<arch, loader, state, entry_register_values, entry>>

\* what the concrete target answers: the segment base it leaks, and the
\* vsyscall address its memory holds at gs + 0x10
ConcreteSegmentBases == {24576}
ConcreteVsyscallAddrs == {600, 28800}

\* lines 312-321; the synchroniser of AMD64 states
initialize_segment_register_x64 ==
    \E fs \in ConcreteSegmentBases :
        /\ IsArchAMD64(arch)
        /\ state' = [state EXCEPT !.fs = Some(fs)]
        /\ ret' = NoRet
        /\ UNCHANGED <<arch, loader, extern_object, memory, hooks, simos, calls,
                       entry_register_values, entry>>

\* lines 323-342; the synchroniser of X86 states
initialize_gdt_x86 ==
    \E gs \in ConcreteSegmentBases, _vsyscall_address \in ConcreteVsyscallAddrs :
        LET gdt == [fs |-> 0, gs |-> gs]
        IN  /\ IsArchX86(arch)
            /\ state' = [state EXCEPT !.gs = Some(gs), !.gdt = Some(gdt)]
            /\ hooks' = RehookSymbol(hooks, _vsyscall_address, "_vsyscall")
            /\ ret' = NoRet
            /\ UNCHANGED <<arch, loader, extern_object, memory, simos, calls,
                           entry_register_values, entry>>

\* configuration of a project and the calls made on it afterwards
Next ==
    \/ configure_project
    \/ prepare_function_symbol
    \/ initialize_segment_register_x64
    \/ initialize_gdt_x86

Spec == Init /\ [][Next]_vars

\* syscall dispatch on a project that is being configured
NextSyscall ==
    \/ configure_project
    \/ syscall_abi

SpecSyscall == Init /\ [][NextSyscall]_vars

-----------------------------------------------------------------------------
(* Properties of the project-level operations.                             *)

Range(f) == {f[i] : i \in DOMAIN f}

Configured == calls.configure >= 1

\* the step is a call of configure_project on a project configured before
Reconfigure == calls.configure >= 1 /\ calls'.configure = calls.configure + 1

IfuncHooks(hk) == {a \in DOMAIN hk : hk[a].name = "IFuncResolver"}

\* the relocation records the ifunc pass acts on
IfuncRelocSet ==
    IF loader.main_object.is_elf /\ (IsArchAMD64(arch) \/ IsArchX86(arch))
    THEN {r \in Range(loader.relocs) :
            r.symbol /\ r.resolvedby = "STT_GNU_IFUNC"}
    ELSE {}

SlotsHooked == \A r \in IfuncRelocSet : IsHookedWord(hooks, memory[r.rebased_addr])

InExtern(a) ==
    \E i \in DOMAIN extern_object.allocs :
        LET x == extern_object.allocs[i] IN x.addr <= a /\ a < x.addr + x.size

ExternsDisjoint ==
    \A i, j \in DOMAIN extern_object.allocs :
        i < j => LET x == extern_object.allocs[i]
                     y == extern_object.allocs[j]
                 IN  x.addr + x.size <= y.addr \/ y.addr + y.size <= x.addr

\* C1 as stated: whenever syscall_abi returns normally on a configured
\* project, the value is one of the ABI names configure_project declared for
\* the architecture.
C1_AsStated ==
    (Configured /\ ret.op = "syscall_abi" /\ ~ret.raised)
        => ret.abi \in Range(simos.syscall_abis)

\* C1 amended: on AMD64 a normal return of syscall_abi is one of the declared
\* ABI names; on every other architecture syscall_abi returns None for every
\* jumpkind and never raises.
C1_AbiDeclaredOrNone ==
    (Configured /\ ret.op = "syscall_abi")
        => IF arch = "AMD64"
           THEN ~ret.raised => ret.abi \in Range(simos.syscall_abis)
           ELSE ~ret.raised /\ ret.abi = "None"

C1_Witness ==
    /\ Configured /\ ret.op = "syscall_abi"
    /\ arch = "MIPS64" /\ ret.jumpkind = "Ijk_Sys_syscall" /\ ret.abi = "None"

\* C2: on AMD64 syscall_abi maps Ijk_Sys_int128 to 'i386', Ijk_Sys_syscall to
\* 'amd64' and raises AngrSyscallError for any other jumpkind, and the call
\* changes neither the state, the hook table, the extern allocator, loader
\* memory nor the SimLinux fields.
C2_Amd64Dispatch ==
    [][ret'.op = "syscall_abi" =>
        /\ UNCHANGED <<state, hooks, extern_object, memory, simos, calls>>
        /\ arch = "AMD64" =>
            /\ ret'.jumpkind = "Ijk_Sys_int128" => ~ret'.raised /\ ret'.abi = "i386"
            /\ ret'.jumpkind = "Ijk_Sys_syscall" => ~ret'.raised /\ ret'.abi = "amd64"
            /\ ret'.jumpkind \notin {"Ijk_Sys_int128", "Ijk_Sys_syscall"} => ret'.raised
      ]_vars

C2_Witness ==
    /\ arch = "AMD64" /\ Configured /\ hooks # <<>>
    /\ ret.op = "syscall_abi" /\ ret.jumpkind = "Ijk_Boring" /\ ret.raised

\* C3: after a first configure_project every GNU-ifunc relocation slot holds
\* a hooked address, and the ifunc pass of a later configure_project installs
\* no IFuncResolver hook, allocates no extern address (the call allocates its
\* six loader addresses only) and rewrites no relocation slot.
C3_IfuncPassIdempotent ==
    [][/\ calls'.configure >= 1 => SlotsHooked'
       /\ Reconfigure =>
            /\ IfuncHooks(hooks') = IfuncHooks(hooks)
            /\ Len(extern_object'.allocs) = Len(extern_object.allocs) + 6
            /\ \A g \in GotAddrs : memory'[g] = memory[g]
      ]_vars

C3_Witness ==
    /\ calls.configure = 2 /\ arch \in {"X86", "AMD64"}
    /\ Cardinality(IfuncHooks(hooks)) = 2
    /\ Cardinality(IfuncRelocSet) = 2

\* C4 as stated: a second configure_project leaves the hook bindings, the
\* extern allocation counter, the recorded addresses and the patched words
\* as the first left them.
C4_AsStated ==
    [][Reconfigure =>
        /\ hooks' = hooks
        /\ extern_object'.next_addr = extern_object.next_addr
        /\ simos' = simos
        /\ memory' = memory
      ]_vars

\* C4 amended: a second configure_project allocates six further extern
\* addresses, records five of them as the new loader, lock, unlock,
\* error-catch and vsyscall addresses and adds a hook at each, keeping every
\* earlier binding; it declares the same syscall ABIs and leaves the
\* relocation slots and the AMD64 guard words as they were, while the words
\* that hold a recorded address (the three _rtld_global words on AMD64, the
\* thread-pointer word on X86) are rewritten to the new addresses.
C4_ReconfigureAllocatesAgain ==
    [][Reconfigure =>
        /\ Len(extern_object'.allocs) = Len(extern_object.allocs) + 6
        /\ extern_object'.next_addr > extern_object.next_addr
        /\ \A a \in DOMAIN hooks : a \in DOMAIN hooks' /\ hooks'[a] = hooks[a]
        /\ Cardinality(DOMAIN hooks') = Cardinality(DOMAIN hooks) + 5
        /\ \A f \in {"_loader_addr", "_loader_lock_addr", "_loader_unlock_addr",
                     "_error_catch_tsd_addr", "_vsyscall_addr"} :
              /\ simos'[f] # simos[f]
              /\ Val(simos'[f]) \in DOMAIN hooks' \ DOMAIN hooks
        /\ simos'.syscall_abis = simos.syscall_abis
        /\ \A g \in GotAddrs : memory'[g] = memory[g]
        /\ \A a \in DOMAIN memory :
              memory'[a] # memory[a] =>
                 /\ memory[a].hi = 0 /\ memory'[a].hi = 0
                 /\ Some(memory[a].lo) \in {simos._loader_lock_addr,
                        simos._loader_unlock_addr, simos._error_catch_tsd_addr,
                        simos._vsyscall_addr}
                 /\ Some(memory'[a].lo) \in {simos'._loader_lock_addr,
                        simos'._loader_unlock_addr, simos'._error_catch_tsd_addr,
                        simos'._vsyscall_addr}
      ]_vars

C4_Witness ==
    /\ calls.configure = 2 /\ arch = "AMD64"
    /\ loader.tls_object # None
    /\ (RtldGlobal + 3848) \in DOMAIN memory
    /\ memory[RtldGlobal + 3848] = Word(Val(simos._loader_lock_addr))
    /\ memory[ThreadPointer + 40] = GuardWord28

\* C6: prepare_function_symbol returns (address, address) when the main
\* object is not the table-of-contents variant, the address being the fixed
\* one if given and the symbol's pseudo address otherwise; for the
\* table-of-contents variant with no fixed address it returns the pseudo
\* code address and a distinct TOC address whose word holds the code address.
C6_PrepareFunctionSymbol ==
    ret.op = "prepare_function_symbol" =>
        IF ~loader.main_object.is_ppc64_abiv1
        THEN /\ ret.code = ret.target
             /\ ret.code = IF ret.basic_addr # None THEN Val(ret.basic_addr)
                           ELSE extern_object.symbols[ret.symbol_name]
        ELSE ret.basic_addr = None =>
                /\ ret.code = extern_object.symbols[ret.symbol_name]
                /\ ret.target # ret.code
                /\ InExtern(ret.target)
                /\ memory[ret.target] = Word(ret.code)

C6_Witness ==
    /\ ret.op = "prepare_function_symbol"
    /\ loader.main_object.is_ppc64_abiv1 /\ ret.basic_addr = None
    /\ Configured

\* C10 as stated: the extern allocations are pairwise disjoint and every
\* hook sits inside an extern allocation or a loader-owned region.
C10_AsStated ==
    /\ ExternsDisjoint
    /\ \A a \in DOMAIN hooks : InExtern(a) \/ InLoaderRegion(a)

\* C10 amended: the extern allocations are pairwise disjoint, and every hook
\* sits inside an extern allocation or a loader-owned region except the ARM
\* kernel-helper hook, which sits at the fixed address 0xffff0fe0, and the
\* vsyscall hook once initialize_gdt_x86 has re-bound it to the address read
\* from the concrete target.
C10_HooksPlaced ==
    /\ ExternsDisjoint
    /\ \A a \in DOMAIN hooks :
          \/ InExtern(a)
          \/ InLoaderRegion(a)
          \/ /\ a = KernelHelperGetTls /\ IsArchARM(arch)
             /\ hooks[a].name = "_kernel_user_helper_get_tls"
          \/ hooks[a].name = "_vsyscall" /\ state.gdt # None

C10_Witness ==
    /\ calls.configure = 2 /\ calls.prepare >= 1
    /\ IsArchARM(arch) /\ KernelHelperGetTls \in DOMAIN hooks
    /\ Len(extern_object.allocs) >= 13

-----------------------------------------------------------------------------
(* State memory: byte address -> byte.  A byte no store has reached is     *)
(* outside the function's domain.                                          *)

InitialSp == 32768      \* regs.sp of the state the base class hands back

Pow256 == <<1, 256, 65536, 16777216>>

\* byte i (0 = least significant) of a non-negative value below 2^31
ByteOf(v, i) == IF i >= 4 THEN 0 ELSE (v \div Pow256[i + 1]) % 256

\* memory.store(addr, BVV(v, 8 * n), endness)
Store(mem, addr, v, n, big) ==
    [a \in DOMAIN mem \cup (addr .. addr + n - 1) |->
        IF a >= addr /\ a < addr + n
        THEN ByteOf(v, IF big THEN n - 1 - (a - addr) ELSE a - addr)
        ELSE mem[a]]

\* memory.load(addr, n, endness) of a word whose value is below 2^31
Load(mem, addr, n, big) ==
    LET b(i) == mem[IF big THEN addr + n - 1 - i ELSE addr + i]
    IN  b(0) + 256 * b(1) + 65536 * b(2) + 16777216 * b(3)

-----------------------------------------------------------------------------
(* StringTableSpec: a sequence of pointer and string entries.              *)

PointerEntry(v) == [t |-> "ptr", v |-> v, s |-> <<>>]
StringEntry(s) == [t |-> "str", v |-> 0, s |-> s]

RECURSIVE AddStrings(_, _)
AddStrings(table, strings) ==
    IF strings = <<>> THEN table
    ELSE AddStrings(Append(table, StringEntry(Head(strings))), Tail(strings))

\* append_args / append_env: one string entry each, then a null pointer
AppendArgs(table, args) == Append(AddStrings(table, args), PointerEntry(0))

EnvString(e) == e.k \o <<61>> \o e.v

AppendEnv(table, env) ==
    Append(AddStrings(table, [i \in DOMAIN env |-> EnvString(env[i])]), PointerEntry(0))

\* the bytes of an n-byte word
WordBytes(v, n, big) == [i \in 1..n |-> ByteOf(v, IF big THEN n - i ELSE i - 1)]

\* the pointer slots of the table, the first string being stored at str
RECURSIVE SlotBytes(_, _, _, _)
SlotBytes(table, str, n, big) ==
    IF table = <<>> THEN <<>>
    ELSE LET e == Head(table) IN
         IF e.t = "ptr"
         THEN WordBytes(e.v, n, big) \o SlotBytes(Tail(table), str, n, big)
         ELSE WordBytes(str, n, big) \o SlotBytes(Tail(table), str + Len(e.s) + 1, n, big)

\* the strings of the table, each NUL-terminated
RECURSIVE StringBytes(_)
StringBytes(table) ==
    IF table = <<>> THEN <<>>
    ELSE LET e == Head(table) IN
         IF e.t = "ptr" THEN StringBytes(Tail(table))
         ELSE e.s \o <<0>> \o StringBytes(Tail(table))

\* dump(state, addr): the pointer slots from addr upwards, one per entry, the
\* strings after them; a string entry's slot holds the address of its
\* string.  Returns the memory and the first slot's address.
Dump(mem, table, addr, n, big) ==
    LET image == SlotBytes(table, addr + Len(table) * n, n, big) \o StringBytes(table)
    IN  [mem |-> [a \in DOMAIN mem \cup (addr .. addr + Len(image) - 1) |->
                    IF a >= addr /\ a < addr + Len(image) THEN image[a - addr + 1]
                    ELSE mem[a]],
         addr |-> addr]

-----------------------------------------------------------------------------
(* state_entry and set_entry_register_values.                              *)

Register(i) == i            \* the i-th register of the map
RegisterReset(i) == 1000 + i    \* what a register holds in a fresh state

IntValue(v) == [kind |-> "int", v |-> v, s |-> ""]
Indicator(s) == [kind |-> "str", v |-> 0, s |-> s]
OtherValue == [kind |-> "other", v |-> 0, s |-> ""]

\* SetEntryRegister clearing the register of an unknown indicator
SetEntryRegisterClearsUnknown(st, reg, val, ld) ==
    IF val.kind = "int" THEN [st EXCEPT !.regs[reg] = val.v]
    ELSE IF val.kind = "str"
    THEN IF val.s = "argc" THEN [st EXCEPT !.regs[reg] = st.posix.argc]
         ELSE IF val.s = "argv" THEN [st EXCEPT !.regs[reg] = st.posix.argv]
         ELSE IF val.s = "envp" THEN [st EXCEPT !.regs[reg] = st.posix.environ]
         ELSE IF val.s = "auxv" THEN [st EXCEPT !.regs[reg] = st.posix.auxv]
         ELSE IF val.s = "toc"
         THEN IF ld.main_object.is_ppc64_abiv1
              THEN [st EXCEPT !.regs[reg] = ld.main_object.ppc64_initial_rtoc]
              ELSE st
         ELSE IF val.s = "thread_pointer"
         THEN IF ld.tls_object = None
              THEN [st EXCEPT !.raised = TRUE]
              ELSE [st EXCEPT !.regs[reg] = Val(ld.tls_object).user_thread_pointer]
         ELSE [st EXCEPT !.regs[reg] = 0]
    ELSE st

\* lines 261-284: one (reg, val) item of the map.  raised is the
\* AttributeError of reading user_thread_pointer off a missing TLS object.
SetEntryRegister(st, reg, val, ld) ==
    IF val.kind = "int" THEN [st EXCEPT !.regs[reg] = val.v]
    ELSE IF val.kind = "str"
    THEN IF val.s = "argc" THEN [st EXCEPT !.regs[reg] = st.posix.argc]
         ELSE IF val.s = "argv" THEN [st EXCEPT !.regs[reg] = st.posix.argv]
         ELSE IF val.s = "envp" THEN [st EXCEPT !.regs[reg] = st.posix.environ]
         ELSE IF val.s = "auxv" THEN [st EXCEPT !.regs[reg] = st.posix.auxv]
         ELSE IF val.s = "ld_destructor" THEN [st EXCEPT !.regs[reg] = 0]
         ELSE IF val.s = "toc"
         THEN IF ld.main_object.is_ppc64_abiv1
              THEN [st EXCEPT !.regs[reg] = ld.main_object.ppc64_initial_rtoc]
              ELSE st
         ELSE IF val.s = "thread_pointer"
         THEN IF ld.tls_object = None
              THEN [st EXCEPT !.raised = TRUE]
              ELSE [st EXCEPT !.regs[reg] = Val(ld.tls_object).user_thread_pointer]
         ELSE st
    ELSE st

\* lines 259-284: the items in the map's iteration order, up to a raise
RECURSIVE SetEntryRegisterValues(_, _, _, _)
SetEntryRegisterValues(st, map, i, ld) ==
    IF i > Len(map) \/ st.raised THEN st
    ELSE SetEntryRegisterValues(SetEntryRegister(st, Register(i), map[i], ld),
                                map, i + 1, ld)

Filename == <<112, 114, 111, 103>>      \* project.filename
AtRandom == 25
RandomBytes == <<174, 192, 174, 192, 174, 192, 174, 192,
                 174, 192, 174, 192, 174, 192, 174, 192>>

\* line 234: the zero store below the stack pointer, BVV(0, 8 * 16), as
\* (addr, bytes)
ScratchStore(sp) == [addr |-> sp - 16, size |-> (8 * 16) \div 8]

\* the dump started one word above the zeroed bytes
DumpAddrOffByWord(sp) == sp - 8

\* line 235: the address handed to dump
DumpAddr(sp) == sp - 16

\* envp computed without argv's terminator
EnvpNoTerminator(argv, args, n) == argv + Len(args) * n

\* lines 236-237
Envp(argv, args, n) == argv + (Len(args) + 1) * n
Auxv(argv, args, env, n) == argv + (Len(args) + Len(env) + 2) * n

\* line 240
ArgcSlot(argv, n) == argv - n

\* argc taken from the argument list whatever the override
ArgcIgnoresOverride(argc, args) == Len(args)

\* lines 205-208
Argc(argc, args) == IF argc = None THEN Len(args) ELSE Val(argc)

\* lines 244-248: PPC32 pushes four zero words
RECURSIVE StackPush(_, _, _, _)
StackPush(st, k, n, big) ==
    IF k = 0 THEN st
    ELSE StackPush([st EXCEPT !.sp = @ - n, !.mem = Store(@, st.sp - n, 0, 4, big)],
                   k - 1, n, big)

\* lines 193-257
StateEntry(a, ld, map, args_in, env_in, argc_in) ==
    LET n == ArchBytes(a)
        big == ArchBigEndian(a)
        args == IF args_in = None THEN <<Filename>> ELSE Val(args_in)
        env == IF env_in = None THEN <<>> ELSE Val(env_in)
        argc == Argc(argc_in, args)
        table == Append(Append(Append(Append(
                    AppendEnv(AppendArgs(<<>>, args), env),
                    PointerEntry(AtRandom)), StringEntry(RandomBytes)),
                    PointerEntry(0)), PointerEntry(0))
        sp == InitialSp
        scratch == ScratchStore(sp)
        mem0 == Store(<<>>, scratch.addr, 0, scratch.size, TRUE)
        dumped == Dump(mem0, table, DumpAddr(sp), n, big)
        argv == dumped.addr
        envp == Envp(argv, args, n)
        auxv == Auxv(argv, args, env, n)
        newsp == ArgcSlot(argv, n)
        st0 == [raised |-> FALSE,
                sp |-> newsp,
                mem |-> Store(dumped.mem, newsp, argc, n, big),
                regs |-> [i \in 1..Len(map) |-> RegisterReset(i)],
                posix |-> [argv |-> argv, argc |-> argc, environ |-> envp, auxv |-> auxv],
                scratch |-> scratch,
                dump_addr |-> DumpAddr(sp),
                args |-> args, env |-> env, argc |-> argc_in]
        st1 == IF a = "PPC32" THEN StackPush(st0, 4, n, big) ELSE st0
    IN  SetEntryRegisterValues(st1, map, 1, ld)

Indicators ==
    {IntValue(28), OtherValue} \cup
    {Indicator(s) : s \in {"argc", "argv", "envp", "auxv", "ld_destructor", "toc",
                           "thread_pointer", "bogus"}}

EntryRegisterMaps == UNION {[1..k -> Indicators] : k \in 0..MaxRegs}

ArgString == <<97>>
ArgLists == {None} \cup {Some([i \in 1..k |-> ArgString]) : k \in 0..MaxArgs}
EnvOfSize(k) == [i \in 1..k |-> [k |-> <<74 + i>>, v |-> <<118>>]]
Envs == {None} \cup {Some(EnvOfSize(k)) : k \in 0..MaxEnv}
ArgcOverrides == {None, Some(0), Some(MaxArgc)}

\* The stack image does not depend on the map, and the registers depend on
\* the arguments through argc and the three pointers only: every argument
\* combination is tried with the maps of those four indicators, and every
\* map with the argument combinations below.
PointerMaps ==
    {m \in EntryRegisterMaps :
        \A i \in DOMAIN m : m[i] \in {Indicator("argc"), Indicator("argv"),
                                       Indicator("envp"), Indicator("auxv")}}

FewArguments ==
    {<<a, Some(EnvOfSize(MaxEnv)), c>> :
        a \in {None, Some(<<ArgString>>)}, c \in {None, Some(MaxArgc)}}

\* the projects state_entry is called on: no relocation records are read
EntryLoaders(a) == {l \in Loaders(a) : l.relocs = <<>> /\ l.linux_loader_object = None
                                       /\ l.main_object.is_elf}

InitEntry ==
    /\ arch \in Archs
    /\ loader \in EntryLoaders(arch)
    /\ InitProject
    /\ entry_register_values \in EntryRegisterMaps
    /\ entry = None

\* every call builds its state from the project and its arguments alone,
\* so one call per behaviour reaches every state a call can build
state_entry ==
    \E args \in ArgLists, env \in Envs, argc \in ArgcOverrides :
        /\ entry = None
        /\ entry_register_values \in PointerMaps \/ <<args, env, argc>> \in FewArguments
        /\ entry' = Some(StateEntry(arch, loader, entry_register_values, args, env, argc))
        /\ UNCHANGED <<arch, loader, extern_object, memory, hooks, simos, ret, state,
                       calls, entry_register_values>>

NextEntry == state_entry

SpecEntry == InitEntry /\ [][NextEntry]_vars

-----------------------------------------------------------------------------
(* Properties of state_entry.                                              *)

Built == entry # None /\ ~Val(entry).raised

WordAt(e, addr) == Load(e.mem, addr, ArchBytes(arch), ArchBigEndian(arch))

ExpectedArgc(e) == IF e.argc = None THEN Len(e.args) ELSE Val(e.argc)

\* C5: the argc stored in the stack slot one pointer-width below argv and in
\* every register whose indicator is 'argc' is the override when one is
\* given, whatever the number of arguments, and len(args) otherwise.
C5_ArgcOverride ==
    Built =>
        LET e == Val(entry) IN
        /\ WordAt(e, e.posix.argv - ArchBytes(arch)) = ExpectedArgc(e)
        /\ \A i \in DOMAIN entry_register_values :
              entry_register_values[i] = Indicator("argc") => e.regs[i] = ExpectedArgc(e)

C5_Witness ==
    /\ Built
    /\ Val(entry).argc = Some(MaxArgc) /\ Len(Val(entry).args) = 1
    /\ entry_register_values = <<Indicator("argv"), Indicator("argc")>>
    /\ Val(entry).regs[2] = MaxArgc

ListedIndicators ==
    {IntValue(28)} \cup
    {Indicator(s) : s \in {"argc", "argv", "envp", "auxv", "ld_destructor"}}

HasUnknown(map) == \E i \in DOMAIN map : map[i] = Indicator("bogus")

\* C7: with an unrecognized indicator anywhere in the map, among registers
\* of the kinds literal, argc, argv, envp, auxv and ld_destructor,
\* set_entry_register_values does not raise, leaves the unrecognized
\* register at its prior value and stores every other register's value.
C7_UnknownIndicatorIgnored ==
    (/\ entry # None
     /\ HasUnknown(entry_register_values)
     /\ \A i \in DOMAIN entry_register_values :
           entry_register_values[i] \in ListedIndicators \cup {Indicator("bogus")})
    => LET e == Val(entry)
           n == ArchBytes(arch)
           argv == InitialSp - 16
       IN  /\ ~e.raised
           /\ \A i \in DOMAIN entry_register_values :
                 LET val == entry_register_values[i] IN
                 e.regs[i] =
                    IF val = Indicator("bogus") THEN RegisterReset(i)
                    ELSE IF val.kind = "int" THEN val.v
                    ELSE IF val.s = "argc" THEN ExpectedArgc(e)
                    ELSE IF val.s = "argv" THEN argv
                    ELSE IF val.s = "envp" THEN argv + (Len(e.args) + 1) * n
                    ELSE IF val.s = "auxv" THEN argv + (Len(e.args) + Len(e.env) + 2) * n
                    ELSE 0

C7_Witness ==
    /\ Built
    /\ entry_register_values = <<Indicator("bogus"), Indicator("auxv")>>
    /\ Val(entry).regs[1] = RegisterReset(1)
    /\ Val(entry).regs[2] = Val(entry).posix.auxv

\* C8: envp is argv + (len(args) + 1) pointer-widths and auxv is
\* argv + (len(args) + len(env) + 2) pointer-widths, whatever the argc
\* override: envp is the slot after argv's null terminator, auxv the slot
\* after envp's null terminator, and the auxiliary vector at auxv is the
\* AT_RANDOM pair followed by two zero words.
C8_EnvpAuxv ==
    Built =>
        LET e == Val(entry)
            n == ArchBytes(arch)
            argv == e.posix.argv
            envp == e.posix.environ
            auxv == e.posix.auxv
        IN  /\ envp = argv + (Len(e.args) + 1) * n
            /\ auxv = argv + (Len(e.args) + Len(e.env) + 2) * n
            /\ \A i \in 0 .. Len(e.args) - 1 : WordAt(e, argv + i * n) # 0
            /\ WordAt(e, envp - n) = 0
            /\ \A i \in 0 .. Len(e.env) - 1 : WordAt(e, envp + i * n) # 0
            /\ WordAt(e, auxv - n) = 0
            /\ WordAt(e, auxv) = AtRandom
            /\ WordAt(e, auxv + n) # 0
            /\ WordAt(e, auxv + 2 * n) = 0
            /\ WordAt(e, auxv + 3 * n) = 0

C8_Witness ==
    /\ Built
    /\ Len(Val(entry).args) = MaxArgs /\ Len(Val(entry).env) = MaxEnv
    /\ Val(entry).argc = Some(0)
    /\ arch = "MIPS64"

\* C9 as stated: the zeroed region is the 128 bytes immediately below the
\* stack pointer and the dump starts at its lowest address.
C9_AsStated ==
    entry # None =>
        LET e == Val(entry) IN
        /\ e.scratch.size = 128
        /\ e.scratch.addr + e.scratch.size = InitialSp
        /\ e.dump_addr = e.scratch.addr

\* C9 amended: the zeroed region is the 16 bytes (128 bits) immediately below
\* the stack pointer and the dump starts at its lowest address.
C9_ScratchSixteenBytes ==
    entry # None =>
        LET e == Val(entry) IN
        /\ e.scratch.size = 16
        /\ e.scratch.addr + e.scratch.size = InitialSp
        /\ e.dump_addr = e.scratch.addr

C9_Witness ==
    /\ Built
    /\ Val(entry).scratch = [addr |-> InitialSp - 16, size |-> 16]
    /\ Val(entry).sp < InitialSp - 16

====
